---------------------------- MODULE Spec2Model ----------------------------
(***************************************************************************)
(* Terraform plan analyzer: analyze_terraform_plan (src/src/agent.py) and  *)
(* the four stages it calls: TerraformPlanParser, ErrorDetector,           *)
(* RecommendationEngine and ResponseFormatter.                             *)
(*                                                                         *)
(* Texts are TLA+ strings, handled character by character (Len, SubSeq,    *)
(* \o), so that every regular expression of the source is modelled by the  *)
(* set of strings it matches and by the match Python's re module returns   *)
(* (leftmost start, greedy or lazy quantifiers, look-ahead).               *)
(*                                                                         *)
(* The module is ASCII: the box-drawing glyphs of Terraform's diagnostics  *)
(* are written  |  for U+2502 (the vertical bar of plan_parser.py:58-59)   *)
(* and  ^  for U+2577 (the upper corner of plan_parser.py:59).  Neither    *)
(* stand-in occurs in any other role in the texts of the model.            *)
(***************************************************************************)
EXTENDS Integers, Sequences, FiniteSets, TLC

VARIABLES
    input,            \* how the caller composed the plan text (bookkeeping only)
    plan_output,      \* the argument of analyze_terraform_plan
    plan_sections,    \* TerraformPlanParser.plan_sections
    resource_counts,  \* agent.py:26
    error_contexts,   \* agent.py:27
    errors,           \* agent.py:36 and :45, the list the formatter is given
    response,         \* the report returned by analyze_terraform_plan
    exit,             \* which return statement of analyze_terraform_plan was taken
    pc                \* position inside analyze_terraform_plan

vars == <<input, plan_output, plan_sections, resource_counts, error_contexts,
          errors, response, exit, pc>>

\* An Optional value is a sequence of at most one element: None is the empty
\* sequence, and Some(x) holds x.
None == <<>>
Some(x) == <<x>>

-----------------------------------------------------------------------------
(* Characters and strings                                                  *)

Digits == {"0", "1", "2", "3", "4", "5", "6", "7", "8", "9"}

LowerLetters == {"a", "b", "c", "d", "e", "f", "g", "h", "i", "j", "k", "l", "m",
                 "n", "o", "p", "q", "r", "s", "t", "u", "v", "w", "x", "y", "z"}

UpperLetters == {"A", "B", "C", "D", "E", "F", "G", "H", "I", "J", "K", "L", "M",
                 "N", "O", "P", "Q", "R", "S", "T", "U", "V", "W", "X", "Y", "Z"}

\* \s of Python's re, restricted to ASCII.
Whitespace == {" ", "\n", "\t", "\r", "\f"}

\* str.lower on one character.
LowerOf ==
    ("A" :> "a") @@ ("B" :> "b") @@ ("C" :> "c") @@ ("D" :> "d") @@ ("E" :> "e") @@
    ("F" :> "f") @@ ("G" :> "g") @@ ("H" :> "h") @@ ("I" :> "i") @@ ("J" :> "j") @@
    ("K" :> "k") @@ ("L" :> "l") @@ ("M" :> "m") @@ ("N" :> "n") @@ ("O" :> "o") @@
    ("P" :> "p") @@ ("Q" :> "q") @@ ("R" :> "r") @@ ("S" :> "s") @@ ("T" :> "t") @@
    ("U" :> "u") @@ ("V" :> "v") @@ ("W" :> "w") @@ ("X" :> "x") @@ ("Y" :> "y") @@
    ("Z" :> "z")

Min(S) == CHOOSE x \in S : \A y \in S : x <= y
Max(S) == CHOOSE x \in S : \A y \in S : x >= y

\* s[i] (1-based), and the slices s[i:] and s[i..j].
At(s, i) == SubSeq(s, i, i)
From(s, i) == SubSeq(s, i, Len(s))

\* Does the literal p occur in s at position i?
IsAt(s, p, i) == i >= 1 /\ i + Len(p) - 1 <= Len(s) /\ SubSeq(s, i, i + Len(p) - 1) = p

\* The positions >= from at which the literal p occurs in s.
Occurrences(s, p, from) == {i \in from..(Len(s) - Len(p) + 1) : SubSeq(s, i, i + Len(p) - 1) = p}

\* Leftmost occurrence of the literal p in s at or after from; 0 if there is none.
Find(s, p, from) ==
    LET occ == Occurrences(s, p, from) IN IF occ = {} THEN 0 ELSE Min(occ)

\* re.search of a literal pattern (case-sensitive).
Contains(s, p) == \E i \in 1..(Len(s) - Len(p) + 1) : SubSeq(s, i, i + Len(p) - 1) = p

\* The end (exclusive) of the maximal run of characters of class C starting at i.
RunEnd(s, C, i) ==
    IF i > Len(s) THEN i
    ELSE Min({j \in i..(Len(s) + 1) : j = Len(s) + 1 \/ At(s, j) \notin C})

\* str.strip(): drop leading and trailing whitespace.
Strip(s) ==
    LET keep == {i \in 1..Len(s) : At(s, i) \notin Whitespace}
    IN  IF keep = {} THEN "" ELSE SubSeq(s, Min(keep), Max(keep))

\* str.lower(); re.IGNORECASE compares the lowered pattern with the lowered text.
RECURSIVE ToLower(_)
ToLower(s) ==
    IF Len(s) = 0 THEN ""
    ELSE IF Len(s) = 1 THEN (IF s \in UpperLetters THEN LowerOf[s] ELSE s)
    ELSE LET half == Len(s) \div 2
         IN  ToLower(SubSeq(s, 1, half)) \o ToLower(SubSeq(s, half + 1, Len(s)))

\* int() of a string of decimal digits.
DigitValue ==
    ("0" :> 0) @@ ("1" :> 1) @@ ("2" :> 2) @@ ("3" :> 3) @@ ("4" :> 4) @@
    ("5" :> 5) @@ ("6" :> 6) @@ ("7" :> 7) @@ ("8" :> 8) @@ ("9" :> 9)

RECURSIVE ParseInt(_)
ParseInt(s) ==
    IF s = "" THEN 0
    ELSE 10 * ParseInt(SubSeq(s, 1, Len(s) - 1)) + DigitValue[At(s, Len(s))]

\* '\n\n'.join(list)
RECURSIVE Join(_)
Join(list) ==
    IF list = <<>> THEN ""
    ELSE IF Len(list) = 1 THEN list[1]
    ELSE list[1] \o "\n\n" \o Join(Tail(list))


\* The end (exclusive) of the maximal run of characters outside C starting at i.
RunEndNot(s, C, i) ==
    IF i > Len(s) THEN i
    ELSE Min({j \in i..(Len(s) + 1) : j = Len(s) + 1 \/ At(s, j) \in C})

-----------------------------------------------------------------------------
(* TerraformPlanParser (src/src/parser/plan_parser.py)                     *)

\* The end (exclusive) of a look-ahead-terminated lazy capture that starts at
\* from: the first blank line (two line feeds) at or after from, else the end of
\* the text.
CaptureEnd(s, from) ==
    LET nn == Find(s, "\n\n", from) IN IF nn = 0 THEN Len(s) + 1 ELSE nn

\* Terraform, whitespace, v, then three dot-separated numbers: the end
\* (exclusive) of the match that starts at i, 0 if there is none.
VersionEnd(s, i) ==
    LET b == RunEnd(s, Whitespace, i + 9)
        c == RunEnd(s, Digits, b + 1)
        d == RunEnd(s, Digits, c + 1)
        e == RunEnd(s, Digits, d + 1)
    IN  IF /\ IsAt(s, "Terraform", i) /\ b > i + 9 /\ IsAt(s, "v", b)
           /\ c > b + 1 /\ IsAt(s, ".", c)
           /\ d > c + 1 /\ IsAt(s, ".", d)
           /\ e > d + 1
        THEN e ELSE 0

TerraformVersion(s) ==
    LET starts == {i \in 1..Len(s) : VersionEnd(s, i) # 0}
    IN  IF starts = {} THEN ""
        ELSE LET i == Min(starts)
             IN  SubSeq(s, RunEnd(s, Whitespace, i + 9) + 1, VersionEnd(s, i) - 1)

\* PlanSection without the look-ahead: the summary runs to the end of the text.
PlanSection_to_end(s) ==
    LET i == Find(s, "Plan:", 1)
    IN  IF i = 0 THEN "" ELSE Strip(From(s, i))

\* The plan summary: from the first Plan: to the next blank line or the end.
PlanSection(s) ==
    LET i == Find(s, "Plan:", 1)
    IN  IF i = 0 THEN "" ELSE Strip(SubSeq(s, i, CaptureEnd(s, i + 5) - 1))

\* The three anchors of error_patterns, in the order of the list.  AnchorEnd is
\* the position after the anchor that starts at i (where the capture starts),
\* 0 if anchor k does not match at i.
AnchorEnd(k, s, i) ==
    CASE k = 1 -> IF IsAt(s, "Error: ", i) THEN i + 7 ELSE 0
      [] k = 2 -> IF IsAt(s, "| Error: ", i) THEN i + 9 ELSE 0
      [] k = 3 ->
            LET a == RunEnd(s, Whitespace, i + 1)
                b == RunEnd(s, Whitespace, a + 1)
            IN  IF IsAt(s, "^", i) /\ IsAt(s, "|", a) /\ IsAt(s, "Error: ", b)
                THEN b + 7 ELSE 0

\* re.findall(error_patterns[k], s, re.DOTALL): the captures of the
\* non-overlapping matches, left to right; the scan resumes where a match ends.
RECURSIVE FindAllErrors(_, _, _)
FindAllErrors(k, s, pos) ==
    LET starts == {i \in pos..Len(s) : AnchorEnd(k, s, i) # 0}
    IN  IF starts = {} THEN <<>>
        ELSE LET cs == AnchorEnd(k, s, Min(starts))
                 ce == CaptureEnd(s, cs)
             IN  <<SubSeq(s, cs, ce - 1)>> \o FindAllErrors(k, s, ce)

\* all_errors of _split_into_sections: the captures of pattern 1, then those of
\* pattern 2, then those of pattern 3.
AllErrors(s) == FindAllErrors(1, s, 1) \o FindAllErrors(2, s, 1) \o FindAllErrors(3, s, 1)

ErrorsSection(s) ==
    LET all_errors == AllErrors(s)
    IN  IF all_errors # <<>>
        THEN Join([n \in 1..Len(all_errors) |-> Strip(all_errors[n])])
        ELSE ""

split_into_sections(s) ==
    [header            |-> "",
     terraform_version |-> TerraformVersion(s),
     initialization    |-> "",
     plan              |-> PlanSection(s),
     changes           |-> "",
     errors            |-> ErrorsSection(s)]

\* re.search of one or more digits followed by the literal suffix; the captured
\* number, or 0 when there is no match.
CountOf(plan_text, suffix) ==
    LET starts == {i \in 1..Len(plan_text) :
                      /\ At(plan_text, i) \in Digits
                      /\ IsAt(plan_text, suffix, RunEnd(plan_text, Digits, i))}
    IN  IF starts = {} THEN 0
        ELSE LET i == Min(starts)
             IN  ParseInt(SubSeq(plan_text, i, RunEnd(plan_text, Digits, i) - 1))

\* extract_resource_counts returning zero counts when there is no summary.
extract_resource_counts_zero(sections) ==
    Some([add     |-> CountOf(sections.plan, " to add"),
          change  |-> CountOf(sections.plan, " to change"),
          destroy |-> CountOf(sections.plan, " to destroy")])

extract_resource_counts(sections) ==
    IF sections.plan = "" THEN None
    ELSE Some([add     |-> CountOf(sections.plan, " to add"),
               change  |-> CountOf(sections.plan, " to change"),
               destroy |-> CountOf(sections.plan, " to destroy")])

has_errors(sections) == sections.errors # ""

\* A match of line feed, whitespace, line feed that starts at i: the position of
\* its last character, 0 if there is none.  The greedy whitespace run gives back
\* characters until it is followed by a line feed.
SeparatorLast(s, i) ==
    LET e  == RunEnd(s, Whitespace, i + 1)
        nl == {j \in (i + 1)..(e - 1) : At(s, j) = "\n"}
    IN  IF IsAt(s, "\n", i) /\ nl # {} THEN Max(nl) ELSE 0

\* re.split on blank-line boundaries.
RECURSIVE SplitBlocks(_, _)
SplitBlocks(s, pos) ==
    LET starts == {i \in pos..Len(s) : SeparatorLast(s, i) # 0}
    IN  IF starts = {} THEN <<From(s, pos)>>
        ELSE LET i == Min(starts)
             IN  <<SubSeq(s, pos, i - 1)>> \o SplitBlocks(s, SeparatorLast(s, i) + 1)

\* on, whitespace, a path without colon, a colon, a line number.  The match that
\* starts at i as <<path, line>>, or None.
LocationAt(s, i) ==
    LET c  == RunEndNot(s, {":"}, i + 2)
        w  == RunEnd(s, Whitespace, i + 2)
        ps == IF w < c THEN w ELSE c - 1
        de == RunEnd(s, Digits, c + 1)
    IN  IF /\ IsAt(s, "on", i) /\ w > i + 2 /\ c >= i + 4
           /\ IsAt(s, ":", c) /\ de > c + 1
        THEN <<SubSeq(s, ps, c - 1), SubSeq(s, c + 1, de - 1)>>
        ELSE None

Location(block) ==
    LET starts == {i \in 1..Len(block) : LocationAt(block, i) # None}
    IN  IF starts = {} THEN None ELSE LocationAt(block, Min(starts))

\* The explicit declaration, resource "type" "name": the match that starts at i
\* as <<type, name>>, or None.
DeclarationAt(s, i) ==
    LET a == i + 10
        b == RunEndNot(s, {"\""}, a)
        c == b + 3
        d == RunEndNot(s, {"\""}, c)
    IN  IF /\ IsAt(s, "resource \"", i) /\ b > a /\ IsAt(s, "\" \"", b)
           /\ d > c /\ IsAt(s, "\"", d)
        THEN <<SubSeq(s, a, b - 1), SubSeq(s, c, d - 1)>>
        ELSE None

Declaration(block) ==
    LET starts == {i \in 1..Len(block) : DeclarationAt(block, i) # None}
    IN  IF starts = {} THEN None ELSE DeclarationAt(block, Min(starts))

\* The characters of a dotted address.
AddressChars == LowerLetters \cup UpperLetters \cup Digits \cup {"_", "-", "."}

\* The dotted-address pattern matches at i when the run of address characters
\* that starts at i has a dot with a character on each side; the greedy match
\* is then the whole run.
AddressEnd(s, i) ==
    LET e == RunEnd(s, AddressChars, i)
    IN  IF \E k \in (i + 1)..(e - 2) : At(s, k) = "." THEN e ELSE 0

\* parts[-2] and parts[-1] of address.split('.')
LastTwoSegments(address) ==
    LET dots == {k \in 1..Len(address) : At(address, k) = "."}
        last == Max(dots)
        before == {k \in dots : k < last}
        first == IF before = {} THEN 0 ELSE Max(before)
    IN  <<SubSeq(address, first + 1, last - 1), From(address, last + 1)>>

\* AltAddress taking the last match of the pattern in the block.
AltAddress_last_match(block) ==
    LET starts == {i \in 1..Len(block) :
                      /\ AddressEnd(block, i) # 0
                      /\ (i = 1 \/ At(block, i - 1) \notin AddressChars)}
    IN  IF starts = {} THEN None
        ELSE LET i == Max(starts)
             IN  LastTwoSegments(SubSeq(block, i, AddressEnd(block, i) - 1))

AltAddress(block) ==
    LET starts == {i \in 1..Len(block) : AddressEnd(block, i) # 0}
    IN  IF starts = {} THEN None
        ELSE LET i == Min(starts)
             IN  LastTwoSegments(SubSeq(block, i, AddressEnd(block, i) - 1))

\* Python truthiness of an optional string: neither None nor empty.
Truthy(x) == x # None /\ x[1] # ""

\* ErrorContext with the two strategies in the other order: the dotted address
\* first, the explicit declaration only without one.
ErrorContext_alt_first(block) ==
    LET resource_match == Location(block)
        address_match  == Declaration(block)
        alt_address    == AltAddress(block)
        resource       == IF alt_address # None THEN alt_address ELSE address_match
    IN  [message       |-> Strip(block),
         resource_path |-> IF resource_match # None THEN Some(resource_match[1]) ELSE None,
         line_number   |-> IF resource_match # None THEN Some(resource_match[2]) ELSE None,
         resource_type |-> IF resource # None THEN Some(resource[1]) ELSE None,
         resource_name |-> IF resource # None THEN Some(resource[2]) ELSE None]

\* The body of the loop of extract_error_contexts for one non-empty block.
ErrorContext(block) ==
    LET resource_match == Location(block)
        address_match  == Declaration(block)
        resource_type  == IF address_match # None THEN Some(address_match[1]) ELSE None
        resource_name  == IF address_match # None THEN Some(address_match[2]) ELSE None
        alt_address    == AltAddress(block)
        use_alt        == (~Truthy(resource_type) \/ ~Truthy(resource_name))
                          /\ alt_address # None
    IN  [message       |-> Strip(block),
         resource_path |-> IF resource_match # None THEN Some(resource_match[1]) ELSE None,
         line_number   |-> IF resource_match # None THEN Some(resource_match[2]) ELSE None,
         resource_type |-> IF use_alt THEN Some(alt_address[1]) ELSE resource_type,
         resource_name |-> IF use_alt THEN Some(alt_address[2]) ELSE resource_name]

\* ContextsOf without the test that skips the empty blocks.
RECURSIVE ContextsOf_keep_blank(_)
ContextsOf_keep_blank(blocks) ==
    IF blocks = <<>> THEN <<>>
    ELSE <<ErrorContext(Head(blocks))>> \o ContextsOf_keep_blank(Tail(blocks))

RECURSIVE ContextsOf(_)
ContextsOf(blocks) ==
    IF blocks = <<>> THEN <<>>
    ELSE (IF Strip(Head(blocks)) = "" THEN <<>> ELSE <<ErrorContext(Head(blocks))>>)
         \o ContextsOf(Tail(blocks))

extract_error_contexts(sections) ==
    IF ~has_errors(sections) THEN <<>>
    ELSE ContextsOf(SplitBlocks(sections.errors, 1))

-----------------------------------------------------------------------------
(* Regular expressions of the classifier                                   *)

\* A pattern is a sequence of elements, each a record [k, v]:
\*   lit   the literal text v
\*   ws1   one or more whitespace characters
\*   any0  zero or more characters other than a line feed
\*   any   one character other than a line feed
\*   set   one character of the set v
Lit(text)  == [k |-> "lit", v |-> text]
Ws1        == [k |-> "ws1", v |-> ""]
Any0       == [k |-> "any0", v |-> ""]
AnyChar    == [k |-> "any", v |-> ""]
OneOf(set) == [k |-> "set", v |-> set]

\* Can elements n.. of pattern pat match s starting at position i?  Every way
\* of dividing the text between the quantified elements is tried, which is what
\* backtracking achieves.
RECURSIVE MatchAt(_, _, _, _)
MatchAt(pat, n, s, i) ==
    IF n > Len(pat) THEN TRUE
    ELSE LET e == pat[n]
         IN  CASE e.k = "lit"  -> IsAt(s, e.v, i) /\ MatchAt(pat, n + 1, s, i + Len(e.v))
               [] e.k = "ws1"  -> \E j \in (i + 1)..RunEnd(s, Whitespace, i) :
                                      MatchAt(pat, n + 1, s, j)
               [] e.k = "any0" -> \E j \in i..RunEndNot(s, {"\n"}, i) :
                                      MatchAt(pat, n + 1, s, j)
               [] e.k = "any"  -> i <= Len(s) /\ At(s, i) # "\n"
                                      /\ MatchAt(pat, n + 1, s, i + 1)
               [] e.k = "set"  -> i <= Len(s) /\ At(s, i) \in e.v
                                      /\ MatchAt(pat, n + 1, s, i + 1)

\* re.search(pat, s): a match somewhere in s.
Search(pat, s) == \E i \in 1..(Len(s) + 1) : MatchAt(pat, 1, s, i)

-----------------------------------------------------------------------------
(* ErrorDetector (src/src/error_detector/detector.py)                      *)

\* ERROR_PATTERNS, in the insertion order of the dict, which is the order its
\* items() are iterated in.
ERROR_PATTERNS == <<
    [pattern |-> <<Lit("validation failed")>>,          type |-> "validation"],
    [pattern |-> <<Lit("expected"), Ws1, Any0, Ws1, Lit("but"), Ws1, Lit("got")>>,
                                                        type |-> "validation"],
    [pattern |-> <<Lit("required field is not set")>>,  type |-> "validation"],
    [pattern |-> <<Lit("value must be one of")>>,       type |-> "validation"],
    [pattern |-> <<Lit("must contain at least")>>,      type |-> "validation"],
    [pattern |-> <<Lit("invalid value")>>,              type |-> "validation"],
    [pattern |-> <<Lit("unknown resource")>>,           type |-> "dependency"],
    [pattern |-> <<Lit("depends on resource")>>,        type |-> "dependency"],
    [pattern |-> <<Lit("referenced by")>>,              type |-> "dependency"],
    [pattern |-> <<Lit("cyclic dependency")>>,          type |-> "dependency"],
    [pattern |-> <<Lit("cannot resolve")>>,             type |-> "dependency"],
    [pattern |-> <<Lit("access denied")>>,              type |-> "permission"],
    [pattern |-> <<Lit("not authorized")>>,             type |-> "permission"],
    [pattern |-> <<Lit("permission denied")>>,          type |-> "permission"],
    [pattern |-> <<Lit("credentials")>>,                type |-> "permission"],
    [pattern |-> <<Lit("authentication")>>,             type |-> "permission"],
    [pattern |-> <<Lit("forbidden")>>,                  type |-> "permission"],
    [pattern |-> <<Lit("syntax error")>>,               type |-> "syntax"],
    [pattern |-> <<Lit("expected "), OneOf({"\"", "("})>>,   type |-> "syntax"],
    [pattern |-> <<Lit("unexpected "), OneOf({"\"", ")"})>>, type |-> "syntax"],
    [pattern |-> <<Lit("invalid block definition")>>,   type |-> "syntax"],
    [pattern |-> <<Lit("already exists")>>,             type |-> "resource_conflict"],
    [pattern |-> <<Lit("conflicts with")>>,             type |-> "resource_conflict"],
    [pattern |-> <<Lit("duplicate")>>,                  type |-> "resource_conflict"],
    [pattern |-> <<Lit("in use")>>,                     type |-> "resource_conflict"],
    [pattern |-> <<Lit("state is out of date")>>,       type |-> "state_mismatch"],
    [pattern |-> <<Lit("does not match")>>,             type |-> "state_mismatch"],
    [pattern |-> <<Lit("importing")>>,                  type |-> "state_mismatch"],
    [pattern |-> <<Lit("drift detected")>>,             type |-> "state_mismatch"],
    [pattern |-> <<Lit("provider")>>,                   type |-> "provider"],
    [pattern |-> <<Lit("plugin")>>,                     type |-> "provider"],
    [pattern |-> <<Lit("registry"), AnyChar, Lit("terraform"), AnyChar, Lit("io")>>,
                                                        type |-> "provider"],
    [pattern |-> <<Lit("module")>>,                     type |-> "module"],
    [pattern |-> <<Lit("source")>>,                     type |-> "module"],
    [pattern |-> <<Lit("version constraint")>>,         type |-> "module"] >>

\* Does entry n of the table match the message?  re.IGNORECASE: the patterns
\* are lower case, so they are searched in the lowered message.
PatternMatches(n, lowered) == Search(ERROR_PATTERNS[n].pattern, lowered)

\* ClassifyFrom without the early return: the last matching entry wins.
ClassifyFrom_last_match(lowered, n) ==
    LET matching == {k \in n..Len(ERROR_PATTERNS) : PatternMatches(k, lowered)}
    IN  IF matching = {} THEN "other" ELSE ERROR_PATTERNS[Max(matching)].type

\* The loop of _classify_error_type from entry n on.
RECURSIVE ClassifyFrom(_, _)
ClassifyFrom(lowered, n) ==
    IF n > Len(ERROR_PATTERNS) THEN "other"
    ELSE IF PatternMatches(n, lowered) THEN ERROR_PATTERNS[n].type
    ELSE ClassifyFrom(lowered, n + 1)

classify_error_type(error_message) == ClassifyFrom(ToLower(error_message), 1)

\* re.sub of Error: and the whitespace after it (one character or more) by
\* nothing, at every occurrence, from pos on.
RECURSIVE RemoveErrorPrefixes(_, _)
RemoveErrorPrefixes(s, pos) ==
    LET starts == {i \in pos..Len(s) : IsAt(s, "Error:", i) /\ RunEnd(s, Whitespace, i + 6) > i + 6}
    IN  IF starts = {} THEN From(s, pos)
        ELSE LET i == Min(starts)
             IN  SubSeq(s, pos, i - 1) \o RemoveErrorPrefixes(s, RunEnd(s, Whitespace, i + 6))

\* re.sub of every run of whitespace by one space, in s[lo..hi]: a character
\* that is not whitespace stays, the first character of a run becomes a space
\* and the rest of the run goes.
RECURSIVE CollapseWhitespace(_, _, _)
CollapseWhitespace(s, lo, hi) ==
    IF lo > hi THEN ""
    ELSE IF lo = hi
         THEN IF At(s, lo) \notin Whitespace THEN At(s, lo)
              ELSE IF lo > 1 /\ At(s, lo - 1) \in Whitespace THEN "" ELSE " "
    ELSE LET mid == (lo + hi) \div 2
         IN  CollapseWhitespace(s, lo, mid) \o CollapseWhitespace(s, mid + 1, hi)

\* Lines 137-138: the cleaned message.
CleanMessage(error_message) ==
    LET message == RemoveErrorPrefixes(error_message, 1)
    IN  Strip(CollapseWhitespace(message, 1, Len(message)))

ValidationKeywords == {"expected", "required", "must", "invalid"}

\* The keyword of the validation pattern that starts at position i of the
\* message and is followed by at least one character; "" if there is none.
KeywordAt(message, i) ==
    LET ks == {kw \in ValidationKeywords :
                  IsAt(message, kw, i) /\ i + Len(kw) <= Len(message)}
    IN  IF ks = {} THEN "" ELSE CHOOSE kw \in ks : TRUE

\* Lines 141-147: the lazy first group stops at the first such keyword.
HumanizeValidation(message) ==
    LET starts == {i \in 1..Len(message) : KeywordAt(message, i) # ""}
    IN  IF starts = {} THEN message
        ELSE LET i     == Min(starts)
                 kw    == KeywordAt(message, i)
                 field == Strip(SubSeq(message, 1, i - 1))
                 issue == kw \o Strip(From(message, i + Len(kw)))
             IN  "The value for '" \o field \o "' is invalid. " \o issue \o "."

humanize_error_message(error_message, error_type) ==
    LET message == CleanMessage(error_message)
    IN  CASE error_type = "validation" -> HumanizeValidation(message)
          [] error_type = "permission" ->
                "You don't have sufficient permissions: " \o message
          [] error_type = "dependency" ->
                "There's a dependency issue: " \o message
          [] error_type = "syntax" ->
                "There's a syntax error in your configuration: " \o message
          [] error_type = "resource_conflict" ->
                "Resource conflict detected: " \o message
          [] error_type = "state_mismatch" ->
                "The Terraform state doesn't match the actual infrastructure: " \o message
          [] error_type = "provider" ->
                "There's an issue with the provider configuration: " \o message
          [] error_type = "module" ->
                "There's an issue with a module: " \o message
          [] OTHER -> message

\* The loop body of detect_errors attaching a resource whenever a type and a
\* name were extracted, empty or not.
DetectError_not_none(context) ==
    LET error_type == classify_error_type(context.message)
    IN  [errorType         |-> error_type,
         message           |-> humanize_error_message(context.message, error_type),
         affectedResources |->
             IF context.resource_type # None /\ context.resource_name # None
             THEN <<[name    |-> context.resource_name[1],
                     type    |-> context.resource_type[1],
                     address |-> context.resource_type[1] \o "." \o context.resource_name[1]]>>
             ELSE <<>>,
         recommendations   |-> <<>>]

\* The body of the loop of detect_errors for one context.
DetectError(context) ==
    LET error_type == classify_error_type(context.message)
        affected_resource ==
            IF Truthy(context.resource_type) /\ Truthy(context.resource_name)
            THEN Some([name    |-> context.resource_name[1],
                       type    |-> context.resource_type[1],
                       address |-> context.resource_type[1] \o "." \o context.resource_name[1]])
            ELSE None
    IN  [errorType         |-> error_type,
         message           |-> humanize_error_message(context.message, error_type),
         affectedResources |-> IF affected_resource # None
                               THEN <<affected_resource[1]>> ELSE <<>>,
         recommendations   |-> <<>>]

\* detect_errors keeping only the errors that a pattern classified.
detect_errors_classified_only(contexts) ==
    LET classified(error) == error.errorType # "other"
    IN  SelectSeq([n \in 1..Len(contexts) |-> DetectError(contexts[n])], classified)

detect_errors(contexts) == [n \in 1..Len(contexts) |-> DetectError(contexts[n])]

-----------------------------------------------------------------------------
(* RecommendationEngine (src/src/recommender/engine.py)                    *)

Recommendation(description, code, confidence) ==
    [description |-> description, code |-> code, confidence |-> confidence]

\* re.search of an alternation of literals.
ContainsAny(message, literals) == \E p \in literals : Contains(message, p)

\* re.search of prefix, a quote, one or more characters other than a quote,
\* a quote: the text between the quotes of the leftmost match, or None.
QuotedAfter(message, prefix) ==
    LET open   == prefix \o "'"
        starts == {i \in 1..Len(message) :
                      LET a == i + Len(open)
                          b == RunEndNot(message, {"'"}, a)
                      IN  IsAt(message, open, i) /\ b > a /\ IsAt(message, "'", b)}
    IN  IF starts = {} THEN None
        ELSE LET a == Min(starts) + Len(open)
             IN  Some(SubSeq(message, a, RunEndNot(message, {"'"}, a) - 1))

\* re.search of expected, a space and one or more characters: what follows the
\* space up to the end of the line, for the leftmost match, or None.
ExpectedValue(message) ==
    LET starts == {i \in 1..Len(message) :
                      IsAt(message, "expected ", i) /\ RunEndNot(message, {"\n"}, i + 9) > i + 9}
    IN  IF starts = {} THEN None
        ELSE LET a == Min(starts) + 9
             IN  Some(SubSeq(message, a, RunEndNot(message, {"\n"}, a) - 1))

\* error.affectedResources[0].type if error.affectedResources else "resource"
ResourceTypeOf(error) ==
    IF error.affectedResources # <<>> THEN error.affectedResources[1].type ELSE "resource"

\* error.affectedResources[0].name if error.affectedResources else "name"
ResourceNameOf(error) ==
    IF error.affectedResources # <<>> THEN error.affectedResources[1].name ELSE "name"

recommendations_for_validation(error) ==
    LET field_match    == QuotedAfter(error.message, "value for ")
        expected_match == ExpectedValue(error.message)
        required_match == Contains(error.message, "required field")
        field          == IF field_match # None THEN field_match[1] ELSE "the field"
        resource_type  == ResourceTypeOf(error)
    IN  IF expected_match # None THEN
            <<Recommendation(
                "Update " \o field \o " to match the expected format: " \o expected_match[1],
                None, "high")>>
        ELSE IF required_match THEN
            <<Recommendation(
                "Add the required '" \o field \o "' field to your " \o resource_type
                    \o " configuration",
                Some("resource \"" \o resource_type
                    \o "\" \"name\" \n  # Add this required field\n  " \o field
                    \o " = \"value\"\n  # ... other configuration ...\n"),
                "high")>>
        ELSE
            <<Recommendation(
                "Check the documentation for valid values of '" \o field
                    \o "' and update your configuration accordingly",
                None, "medium")>>

recommendations_for_dependency(error) ==
    LET unknown_match == QuotedAfter(error.message, "unknown resource ")
        cycle_match   == Contains(error.message, "cyclic dependency")
    IN  IF unknown_match # None THEN
            <<Recommendation(
                "Define the missing resource '" \o unknown_match[1]
                    \o "' or correct the reference if it's misspelled",
                None, "high"),
              Recommendation(
                "Ensure that the resource '" \o unknown_match[1]
                    \o "' is in the correct module scope",
                None, "medium")>>
        ELSE IF cycle_match THEN
            <<Recommendation(
                "Break the circular dependency between resources by restructuring your configuration",
                None, "medium"),
              Recommendation(
                "Consider using a local value or variable to break the dependency cycle",
                Some("locals {\n  intermediate_value = \"something\"\n}\n\nresource \"type\" \"name\" {\n  property = local.intermediate_value\n}"),
                "medium")>>
        ELSE
            <<Recommendation(
                "Check that all referenced resources exist and are correctly spelled",
                None, "medium"),
              Recommendation(
                "Make sure your resource dependencies are correctly defined using depends_on if needed",
                Some("resource \"type\" \"name\" {\n  # ...\n  depends_on = [\n    resource.dependency\n  ]\n}"),
                "medium")>>

\* The vendor keywords of lines 169-170, searched as written (case-sensitive).
AwsKeywords   == {"AWS", "IAM", "arn:aws"}
AzureKeywords == {"Azure", "Microsoft"}

\* aws_match searched without regard to case.
aws_match_ignorecase(message) ==
    \E p \in AwsKeywords : Contains(ToLower(message), ToLower(p))

aws_match(message)   == ContainsAny(message, AwsKeywords)
azure_match(message) == ContainsAny(message, AzureKeywords)

GenericPermission ==
    Recommendation(
        "Check that your credentials have sufficient permissions for this operation",
        None, "high")

AwsPermission ==
    Recommendation(
        "Ensure your AWS IAM user or role has the necessary permissions to manage these resources",
        Some("{\n  \"Version\": \"2012-10-17\",\n  \"Statement\": [\n    {\n      \"Effect\": \"Allow\",\n      \"Action\": [\n        \"service:Action\"\n      ],\n      \"Resource\": \"*\"\n    }\n  ]\n}"),
        "medium")

AzurePermission ==
    Recommendation(
        "Check that your Azure service principal has the required role assignments",
        Some("az role assignment create --assignee \"$CLIENT_ID\" --role \"Contributor\" --scope \"/subscriptions/$SUBSCRIPTION_ID\""),
        "medium")

VerifyCredentials ==
    Recommendation(
        "Verify that your authentication credentials are correct and not expired",
        None, "medium")

\* _recommendations_for_permission with the vendor recommendation appended
\* after the two general ones.
recommendations_for_permission_vendor_last(error) ==
    <<GenericPermission, VerifyCredentials>>
    \o (IF aws_match(error.message) THEN <<AwsPermission>>
        ELSE IF azure_match(error.message) THEN <<AzurePermission>>
        ELSE <<>>)

recommendations_for_permission(error) ==
    <<GenericPermission>>
    \o (IF aws_match(error.message) THEN <<AwsPermission>>
        ELSE IF azure_match(error.message) THEN <<AzurePermission>>
        ELSE <<>>)
    \o <<VerifyCredentials>>

\* _recommendations_for_syntax with the terraform fmt item at medium
\* confidence.
recommendations_for_syntax_fmt_medium(error) ==
    LET quotes_match ==
            ContainsAny(error.message,
                {"expected quote", "expected \"", "missing quote", "missing \""})
        brackets_match ==
            ContainsAny(error.message,
                {"expected bracket", "expected {", "expected }", "expected (", "expected )",
                 "missing bracket", "missing {", "missing }", "missing (", "missing )"})
    IN  (IF quotes_match THEN
            <<Recommendation(
                "Check for missing or unbalanced quotes in your configuration",
                None, "high")>>
         ELSE IF brackets_match THEN
            <<Recommendation(
                "Fix unbalanced brackets or braces in your configuration",
                None, "high")>>
         ELSE <<>>)
        \o <<Recommendation(
                "Run 'terraform fmt' to automatically fix minor syntax issues",
                Some("terraform fmt"), "medium"),
             Recommendation(
                "Check the HCL syntax documentation for proper formatting",
                None, "medium")>>

recommendations_for_syntax(error) ==
    LET quotes_match ==
            ContainsAny(error.message,
                {"expected quote", "expected \"", "missing quote", "missing \""})
        brackets_match ==
            ContainsAny(error.message,
                {"expected bracket", "expected {", "expected }", "expected (", "expected )",
                 "missing bracket", "missing {", "missing }", "missing (", "missing )"})
    IN  (IF quotes_match THEN
            <<Recommendation(
                "Check for missing or unbalanced quotes in your configuration",
                None, "high")>>
         ELSE IF brackets_match THEN
            <<Recommendation(
                "Fix unbalanced brackets or braces in your configuration",
                None, "high")>>
         ELSE <<>>)
        \o <<Recommendation(
                "Run 'terraform fmt' to automatically fix minor syntax issues",
                Some("terraform fmt"), "high"),
             Recommendation(
                "Check the HCL syntax documentation for proper formatting",
                None, "medium")>>

ImportExisting(resource_type, resource_name) ==
    Recommendation(
        "Import the existing resource into your Terraform state instead of creating a new one",
        Some("terraform import " \o resource_type \o "." \o resource_name \o " <resource_id>"),
        "high")

recommendations_for_conflict(error) ==
    LET resource_type == ResourceTypeOf(error)
        resource_name == ResourceNameOf(error)
        exists_match  == Contains(error.message, "already exists")
        in_use_match  == Contains(error.message, "in use")
    IN  (IF exists_match THEN
            <<ImportExisting(resource_type, resource_name),
              Recommendation(
                "Use a different name for your " \o resource_type \o " to avoid the conflict",
                None, "medium")>>
         ELSE IF in_use_match THEN
            <<Recommendation(
                "Identify and remove the dependency on this resource before making changes",
                None, "medium")>>
         ELSE <<>>)
        \o <<Recommendation(
                "Check if you can use 'terraform state rm' to remove the conflicting resource from state if it no longer exists",
                Some("terraform state rm " \o resource_type \o "." \o resource_name),
                "low")>>

recommendations_for_state_mismatch(error) ==
    LET resource_type == ResourceTypeOf(error)
        resource_name == ResourceNameOf(error)
    IN  <<Recommendation(
            "Refresh the Terraform state to match the current real infrastructure",
            Some("terraform refresh"), "high"),
          Recommendation(
            "Import the existing resource into your Terraform state",
            Some("terraform import " \o resource_type \o "." \o resource_name \o " <resource_id>"),
            "medium"),
          Recommendation(
            "If the resource has been manually modified, update your configuration to match the current state",
            None, "medium")>>

\* _recommendations_for_provider with an if in place of the elif: the version
\* branch and the plugin branch both contribute.
recommendations_for_provider_both(error) ==
    LET version_match == Contains(error.message, "version")
        plugin_match  == ContainsAny(error.message, {"plugin", "binary"})
    IN  (IF version_match THEN
            <<Recommendation(
                "Update your provider version constraint in the required_providers block",
                Some("terraform {\n  required_providers {\n    aws = {\n      source  = \"hashicorp/aws\"\n      version = \"~> 4.0\"\n    }\n  }\n}"),
                "high")>>
         ELSE <<>>)
        \o (IF plugin_match THEN
            <<Recommendation(
                "Reinstall the provider plugin by running terraform init",
                Some("terraform init -upgrade"), "high")>>
         ELSE <<>>)
        \o <<Recommendation(
                "Check your provider configuration for any missing required attributes",
                None, "medium")>>

recommendations_for_provider(error) ==
    LET version_match == Contains(error.message, "version")
        plugin_match  == ContainsAny(error.message, {"plugin", "binary"})
    IN  (IF version_match THEN
            <<Recommendation(
                "Update your provider version constraint in the required_providers block",
                Some("terraform {\n  required_providers {\n    aws = {\n      source  = \"hashicorp/aws\"\n      version = \"~> 4.0\"\n    }\n  }\n}"),
                "high")>>
         ELSE IF plugin_match THEN
            <<Recommendation(
                "Reinstall the provider plugin by running terraform init",
                Some("terraform init -upgrade"), "high")>>
         ELSE <<>>)
        \o <<Recommendation(
                "Check your provider configuration for any missing required attributes",
                None, "medium")>>

recommendations_for_module(error) ==
    LET source_match  == Contains(error.message, "source")
        version_match == Contains(error.message, "version")
    IN  (IF source_match THEN
            <<Recommendation(
                "Check that the module source URL is correct and accessible",
                Some("module \"example\" {\n  source = \"hashicorp/consul/aws\"\n  version = \"0.1.0\"\n}"),
                "high")>>
         ELSE IF version_match THEN
            <<Recommendation(
                "Update the module version to a compatible version",
                Some("module \"example\" {\n  source  = \"hashicorp/consul/aws\"\n  version = \"~> 0.1.0\"\n}"),
                "high")>>
         ELSE <<>>)
        \o <<Recommendation(
                "Run terraform init to download any missing modules",
                Some("terraform init"), "medium")>>

recommendations_for_other(error) ==
    <<Recommendation(
        "Check the Terraform documentation for this specific error message",
        None, "medium"),
      Recommendation(
        "Try running 'terraform validate' for more detailed error information",
        Some("terraform validate"), "medium"),
      Recommendation(
        "Make sure you're using a compatible Terraform version for your configuration",
        None, "low")>>

\* generate_recommendations_for_error without the final else branch.
generate_recommendations_for_error_no_fallback(error) ==
    CASE error.errorType = "validation"        -> recommendations_for_validation(error)
      [] error.errorType = "dependency"        -> recommendations_for_dependency(error)
      [] error.errorType = "permission"        -> recommendations_for_permission(error)
      [] error.errorType = "syntax"            -> recommendations_for_syntax(error)
      [] error.errorType = "resource_conflict" -> recommendations_for_conflict(error)
      [] error.errorType = "state_mismatch"    -> recommendations_for_state_mismatch(error)
      [] error.errorType = "provider"          -> recommendations_for_provider(error)
      [] error.errorType = "module"            -> recommendations_for_module(error)
      [] OTHER                                 -> <<>>

generate_recommendations_for_error(error) ==
    CASE error.errorType = "validation"        -> recommendations_for_validation(error)
      [] error.errorType = "dependency"        -> recommendations_for_dependency(error)
      [] error.errorType = "permission"        -> recommendations_for_permission(error)
      [] error.errorType = "syntax"            -> recommendations_for_syntax(error)
      [] error.errorType = "resource_conflict" -> recommendations_for_conflict(error)
      [] error.errorType = "state_mismatch"    -> recommendations_for_state_mismatch(error)
      [] error.errorType = "provider"          -> recommendations_for_provider(error)
      [] error.errorType = "module"            -> recommendations_for_module(error)
      [] OTHER                                 -> recommendations_for_other(error)

\* generate_recommendations returning the errors last to first.
generate_recommendations_reversed(errs) ==
    [n \in 1..Len(errs) |->
        LET error == errs[Len(errs) + 1 - n]
        IN  [error EXCEPT !.recommendations = generate_recommendations_for_error(error)]]

generate_recommendations(errs) ==
    [n \in 1..Len(errs) |->
        [errs[n] EXCEPT !.recommendations = generate_recommendations_for_error(errs[n])]]

-----------------------------------------------------------------------------
(* ResponseFormatter (src/src/formatter/response_formatter.py)             *)

DigitChars == <<"0", "1", "2", "3", "4", "5", "6", "7", "8", "9">>

\* str() of a natural number, as an f-string formats it.
RECURSIVE IntToStr(_)
IntToStr(n) ==
    IF n < 10 THEN DigitChars[n + 1]
    ELSE IntToStr(n \div 10) \o DigitChars[(n % 10) + 1]

HasHighConfidence(error) ==
    \E r \in 1..Len(error.recommendations) : error.recommendations[r].confidence = "high"

\* determine_status asking for a high-confidence recommendation before it
\* asks whether there are errors.
determine_status_high_first(errs) ==
    IF ~(\E n \in 1..Len(errs) : HasHighConfidence(errs[n])) THEN "unknown"
    ELSE IF errs = <<>> THEN "success"
    ELSE "error"

\* determine_status looking at the first error only.
determine_status_first_only(errs) ==
    IF errs = <<>> THEN "success"
    ELSE IF ~HasHighConfidence(errs[1]) THEN "unknown"
    ELSE "error"

determine_status(errs) ==
    IF errs = <<>> THEN "success"
    ELSE IF ~(\E n \in 1..Len(errs) : HasHighConfidence(errs[n])) THEN "unknown"
    ELSE "error"

\* The keys of error_types in insertion order: the error types in the order of
\* their first occurrence among errs[n..].
RECURSIVE TypesInOrder(_, _, _)
TypesInOrder(errs, n, seen) ==
    IF n > Len(errs) THEN <<>>
    ELSE IF errs[n].errorType \in seen THEN TypesInOrder(errs, n + 1, seen)
    ELSE <<errs[n].errorType>> \o TypesInOrder(errs, n + 1, seen \cup {errs[n].errorType})

TypeCount(errs, type) == Cardinality({n \in 1..Len(errs) : errs[n].errorType = type})

\* max over keys[n..] where a key with an equal count replaces the running
\* maximum: among the most frequent types the last one wins.
RECURSIVE MaxByCount_last_max(_, _, _, _)
MaxByCount_last_max(errs, keys, n, best) ==
    IF n > Len(keys) THEN best
    ELSE MaxByCount_last_max(errs, keys, n + 1,
            IF TypeCount(errs, keys[n]) >= TypeCount(errs, best) THEN keys[n] ELSE best)

\* max(items, key=count) over keys[n..]: the running maximum is replaced only by
\* a key with a strictly larger count.
RECURSIVE MaxByCount(_, _, _, _)
MaxByCount(errs, keys, n, best) ==
    IF n > Len(keys) THEN best
    ELSE MaxByCount(errs, keys, n + 1,
            IF TypeCount(errs, keys[n]) > TypeCount(errs, best) THEN keys[n] ELSE best)

\* most_common_type of _generate_summary, for a non-empty list of errors.
MostCommonType(errs) ==
    LET keys == TypesInOrder(errs, 1, {}) IN MaxByCount(errs, keys, 2, keys[1])

Issues(error_count) ==
    "Found " \o IntToStr(error_count) \o " issue" \o (IF error_count # 1 THEN "s" ELSE "")
        \o " in your Terraform plan"

\* The f-string of line 107 formats a member of ErrorType, a str-mixin Enum:
\* format() gives the value of the member up to Python 3.10 and its qualified
\* name from Python 3.11 on.
EnumFormats == {"value", "member"}

ErrorTypeMember ==
    [validation        |-> "ErrorType.VALIDATION",
     dependency        |-> "ErrorType.DEPENDENCY",
     permission        |-> "ErrorType.PERMISSION",
     syntax            |-> "ErrorType.SYNTAX",
     resource_conflict |-> "ErrorType.RESOURCE_CONFLICT",
     state_mismatch    |-> "ErrorType.STATE_MISMATCH",
     provider          |-> "ErrorType.PROVIDER",
     module            |-> "ErrorType.MODULE",
     other             |-> "ErrorType.OTHER"]

FormatErrorType(type, enum_format) ==
    IF enum_format = "value" THEN type ELSE ErrorTypeMember[type]

generate_summary(errs, status, enum_format) ==
    IF status = "success" THEN "Your Terraform plan looks good! No errors were detected."
    ELSE IF status = "unknown" THEN
        Issues(Len(errs)) \o ", but couldn't determine specific solutions. Check the error details for more information."
    ELSE
        Issues(Len(errs)) \o ". Most are related to "
            \o FormatErrorType(MostCommonType(errs), enum_format)
            \o " problems. Check the recommendations for solutions."

\* model_dump_json(exclude_none=True): a field whose value is None is left out of
\* the document.  The report is kept as the document's object structure.
DumpRecommendation(r) ==
    IF r.code = None
    THEN [description |-> r.description, confidence |-> r.confidence]
    ELSE [description |-> r.description, code |-> r.code[1], confidence |-> r.confidence]

DumpError(e) ==
    [errorType         |-> e.errorType,
     message           |-> e.message,
     affectedResources |-> e.affectedResources,
     recommendations   |-> [r \in 1..Len(e.recommendations) |->
                               DumpRecommendation(e.recommendations[r])]]

\* Metadata(timestamp, resourceCount); planId keeps its default, None.
DumpMetadata(timestamp, resourceCount) ==
    IF resourceCount = None
    THEN [timestamp |-> timestamp]
    ELSE [timestamp |-> timestamp, resourceCount |-> resourceCount[1]]

format_response(errs, counts, now, enum_format) ==
    LET status == determine_status(errs)
    IN  [status   |-> status,
         summary  |-> generate_summary(errs, status, enum_format),
         errors   |-> [n \in 1..Len(errs) |-> DumpError(errs[n])],
         metadata |-> DumpMetadata(now, counts)]

-----------------------------------------------------------------------------
(* The plan texts given to analyze_terraform_plan                          *)

\* The largest count written in a plan summary, the largest number of error
\* occurrences in one text, and the number of clock readings.
MaxCount == 2
MaxBlocks == 2
MaxTimestamp == 2

\* What precedes the plan summary and the errors.
Intros ==
    {"",
     "Terraform v1.5.4\non darwin_amd64\n\n",
     "No changes. Your infrastructure matches the configuration.\n\n"}

\* A term of the plan summary is absent (None) or states a count.
Counts == {None} \cup {Some(n) : n \in 0..MaxCount} \cup {Some(10 + MaxCount)}

PlanSummaries == [add : Counts, change : Counts, destroy : Counts]

Term(count, what) == IF count = None THEN "" ELSE " " \o IntToStr(count[1]) \o " to " \o what \o ","

RenderPlan(plan) ==
    "Plan:" \o Term(plan.add, "add") \o Term(plan.change, "change")
        \o Term(plan.destroy, "destroy") \o "\n"

\* What follows the plan summary: nothing, a continuation line of the same
\* block, or a second summary after a blank line.
PlanTails ==
    {"", "  (plus 7 to destroy, later)\n", "\nPlan: 7 to add, 8 to change, 9 to destroy.\n"}

\* The three ways an error occurrence is written (plan_parser.py:57-59).
Forms == {"plain", "box", "corner"}

Messages ==
    {"",
     "validation failed for variable region",
     "name expected string but got number",
     "required field is not set",
     "Invalid value for count",
     "size must contain at least 1 item",
     "reference to unknown resource 'aws_vpc.main'",
     "cyclic dependency between a and b",
     "cannot resolve reference",
     "access denied performing iam:CreateRole",
     "not authorized to use IAM role arn:aws:iam::1:role/x",
     "Azure authentication failed",
     "syntax error: expected quote",
     "unexpected ) found, missing bracket",
     "invalid block definition",
     "aws_instance web already exists",
     "Bucket Already Exists",
     "subnet is in use",
     "duplicate resource name",
     "state is out of date",
     "Failed to query provider",
     "provider version mismatch, plugin crashed",
     "could not load plugin",
     "registry.terraform.io/hashicorp/aws unreachable",
     "Failed to load provider module",
     "module not installed",
     "unsupported version constraint",
     "something went wrong",
     "validation failed: expected x, expected a required field",
     "cyclic dependency on unknown resource 'aws_vpc.main'",
     "access denied for AWS and Azure accounts",
     "syntax error: expected quote, missing bracket",
     "bucket already exists and is in use",
     "module source has unsupported version",
     "Unsupported argument\nError: nested"}

\* The messages of the texts with several error occurrences.
FewMessages == {"", "Failed to query provider", "access denied performing iam:CreateRole"}

\* The lines that follow the message inside its block.
Details ==
    {"",
     "on main.tf line 3, in resource \"aws_instance\" \"web\":",
     "in resource \"aws_s3_bucket\" \"logs\" {",
     "with aws_instance.web,",
     "on main.tf:3",
     "see the docs.. for more",
     "apply failed. See aws_instance.web"}

\* One error occurrence: its lines, each after the form's margin.
Margin(form) == IF form = "plain" THEN "" ELSE "| "

RenderBlock(block) ==
    (IF block.form = "corner" THEN "^\n" ELSE "")
    \o Margin(block.form) \o "Error: " \o block.msg
    \o (IF block.detail = "" THEN "" ELSE "\n" \o Margin(block.form) \o "  " \o block.detail)

RECURSIVE RenderBlocks(_, _)
RenderBlocks(blocks, sep) ==
    IF blocks = <<>> THEN ""
    ELSE RenderBlock(Head(blocks)) \o sep \o RenderBlocks(Tail(blocks), sep)

Render(in) ==
    in.intro
    \o (IF in.plan = None THEN "" ELSE RenderPlan(in.plan[1]) \o in.tail \o "\n")
    \o RenderBlocks(in.blocks, in.sep)

FixedPlan == Some([add |-> Some(2), change |-> Some(1), destroy |-> None])

\* Texts without error occurrences, with every plan summary.
PlanInputs ==
    [intro : Intros, plan : {None}, tail : {""}, blocks : {<<>>}, sep : {"\n\n"}]
    \cup [intro : {""}, plan : {Some(p) : p \in PlanSummaries}, tail : PlanTails,
          blocks : {<<>>}, sep : {"\n\n"}]

\* Texts with one error occurrence, of every message, form and detail.
SingleInputs ==
    [intro : {"Terraform v1.5.4\non darwin_amd64\n\n"}, plan : {None, FixedPlan}, tail : {""},
     blocks : {<<b>> : b \in [form : Forms, msg : Messages, detail : Details]},
     sep : {"\n\n"}]

\* Texts with several error occurrences, a blank line or a line feed after each.
RECURSIVE BlockLists(_)
BlockLists(n) ==
    IF n = 0 THEN {<<>>}
    ELSE {<<b>> \o l : b \in [form : Forms, msg : FewMessages, detail : {""}],
                       l \in BlockLists(n - 1)}

MultiInputs ==
    [intro : {""}, plan : {None}, tail : {""},
     blocks : UNION {BlockLists(n) : n \in 2..MaxBlocks},
     sep : {"\n\n", "\n"}]

Inputs == PlanInputs \cup SingleInputs \cup MultiInputs

Timestamps == 1..MaxTimestamp

-----------------------------------------------------------------------------
(* analyze_terraform_plan (src/src/agent.py)                               *)

NoSections ==
    [header |-> "", terraform_version |-> "", initialization |-> "",
     plan |-> "", changes |-> "", errors |-> ""]

Init ==
    /\ input \in Inputs
    /\ plan_output = Render(input)
    /\ plan_sections = NoSections
    /\ resource_counts = None
    /\ error_contexts = <<>>
    /\ errors = <<>>
    /\ response = None
    /\ exit = "none"
    /\ pc = "parse"

\* Line 25: TerraformPlanParser(plan_output).
Parse ==
    /\ pc = "parse"
    /\ plan_sections' = split_into_sections(plan_output)
    /\ pc' = "counts"
    /\ UNCHANGED <<input, plan_output, resource_counts, error_contexts, errors, response, exit>>

\* Line 26.
ExtractResourceCounts ==
    /\ pc = "counts"
    /\ resource_counts' = extract_resource_counts(plan_sections)
    /\ pc' = "contexts"
    /\ UNCHANGED <<input, plan_output, plan_sections, error_contexts, errors, response, exit>>

\* Lines 27-32: without contexts the formatter is given an empty list.
ExtractErrorContexts ==
    /\ pc = "contexts"
    /\ error_contexts' = extract_error_contexts(plan_sections)
    /\ IF error_contexts' = <<>>
       THEN exit' = "no_contexts" /\ pc' = "format"
       ELSE exit' = exit /\ pc' = "detect"
    /\ UNCHANGED <<input, plan_output, plan_sections, resource_counts, errors, response>>

\* Lines 35-41: without errors the formatter is given an empty list.
DetectErrors ==
    /\ pc = "detect"
    /\ errors' = detect_errors(error_contexts)
    /\ IF errors' = <<>>
       THEN exit' = "no_errors" /\ pc' = "format"
       ELSE exit' = exit /\ pc' = "recommend"
    /\ UNCHANGED <<input, plan_output, plan_sections, resource_counts, error_contexts, response>>

\* Lines 44-45.
GenerateRecommendations ==
    /\ pc = "recommend"
    /\ errors' = generate_recommendations(errors)
    /\ exit' = "full"
    /\ pc' = "format"
    /\ UNCHANGED <<input, plan_output, plan_sections, resource_counts, error_contexts, response>>

\* Lines 31-32, 40-41 and 48-49: ResponseFormatter(...).format_response(), which
\* reads the clock.
FormatResponse ==
    /\ pc = "format"
    /\ \E now \in Timestamps, enum_format \in EnumFormats :
          response' = format_response(errors, resource_counts, now, enum_format)
    /\ pc' = "done"
    /\ UNCHANGED <<input, plan_output, plan_sections, resource_counts, error_contexts, errors, exit>>

Next ==
    \/ Parse
    \/ ExtractResourceCounts
    \/ ExtractErrorContexts
    \/ DetectErrors
    \/ GenerateRecommendations
    \/ FormatResponse

Spec == Init /\ [][Next]_vars

Done == pc = "done"

-----------------------------------------------------------------------------
(* Properties                                                              *)

\* The report has a resourceCount.
HasResourceCount == "resourceCount" \in DOMAIN response.metadata

\* Some recommendation of a reported error has high confidence.
ReportedHigh(e) == \E r \in 1..Len(e.recommendations) : e.recommendations[r].confidence = "high"

\* No anchor of the text yields a non-empty match: every capture is blank.
NoErrorRegion ==
    LET all_errors == AllErrors(plan_output)
    IN  \A n \in 1..Len(all_errors) : Strip(all_errors[n]) = ""

\* C1: a plan text in which no error region is detected (no anchor yields a
\* non-empty match) is reported with status success and no errors, whatever
\* else the text contains.
C1_NoErrorRegionIsSuccess ==
    (Done /\ NoErrorRegion) => (response.status = "success" /\ response.errors = <<>>)

\* C1 witness: a text with an Error: anchor whose capture is blank, and with a
\* plan summary, reported as success.
C1_Witness ==
    /\ Done /\ NoErrorRegion
    /\ AllErrors(plan_output) # <<>>
    /\ input.plan # None
    /\ response.status = "success" /\ response.errors = <<>>

\* C2: the status is error exactly when some reported error has a
\* high-confidence recommendation, unknown exactly when there are errors and
\* none has one, and success exactly when there are no errors.
C2_StatusDetermination ==
    Done =>
        LET errs == response.errors
            high == \E n \in 1..Len(errs) : ReportedHigh(errs[n])
        IN  /\ response.status \in {"success", "error", "unknown"}
            /\ (response.status = "error") <=> high
            /\ (response.status = "unknown") <=> (errs # <<>> /\ ~high)
            /\ (response.status = "success") <=> (errs = <<>>)

\* C2 witness: status error although the first reported error has no
\* high-confidence recommendation; a later one has.
C2_Witness ==
    /\ Done
    /\ response.status = "error"
    /\ Len(response.errors) >= 2
    /\ ~ReportedHigh(response.errors[1])
    /\ \E n \in 2..Len(response.errors) : ReportedHigh(response.errors[n])

\* C3: every error of a report has at least one recommendation, whatever its
\* category (the fallback category other included) and its message.
C3_RecommendationsNonEmpty ==
    Done => \A n \in 1..Len(response.errors) : response.errors[n].recommendations # <<>>

\* C3 witness: a reported error of the fallback category, with recommendations.
C3_Witness ==
    /\ Done
    /\ \E n \in 1..Len(response.errors) :
          /\ response.errors[n].errorType = "other"
          /\ Len(response.errors[n].recommendations) = 3

\* The table entries whose pattern is found in the message, case ignored.
MatchingEntries(message) ==
    LET lowered == ToLower(message)
    IN  {k \in 1..Len(ERROR_PATTERNS) : Search(ERROR_PATTERNS[k].pattern, lowered)}

\* The category of the earliest matching entry, other without one.
FirstMatchType(message) ==
    LET matching == MatchingEntries(message)
    IN  IF matching = {} THEN "other" ELSE ERROR_PATTERNS[Min(matching)].type

\* C4: the category the classifier gives an error is the category of the earliest entry of the
\* pattern table that matches its message, case ignored, also when a later
\* entry of another category matches; it is other when no entry matches.
C4_FirstMatchWins ==
    pc = "recommend" =>
        /\ Len(errors) = Len(error_contexts)
        /\ \A n \in 1..Len(errors) :
              errors[n].errorType = FirstMatchType(error_contexts[n].message)

\* C4 witness: a message that matches a provider entry and a module entry is
\* classified provider.
C4_Witness ==
    /\ pc = "recommend"
    /\ \E n \in 1..Len(errors) :
          LET types == {ERROR_PATTERNS[k].type : k \in MatchingEntries(error_contexts[n].message)}
          IN  /\ {"provider", "module"} \subseteq types
              /\ errors[n].errorType = "provider"

\* The error occurrences of the text, when each is a block of its own: a
\* blank line follows each, and each has a message.
OneBlockPerOccurrence ==
    /\ input.sep = "\n\n"
    /\ \A b \in 1..Len(input.blocks) : input.blocks[b].msg # ""

\* C5 (as claimed): every error block of the text, plain or box-drawn, gives
\* exactly one entry of the report, so that the report has as many errors as
\* the text has error blocks.
C5_OneErrorPerBlock ==
    (Done /\ OneBlockPerOccurrence) => Len(response.errors) = Len(input.blocks)

\* The count a term of the summary states, 0 for an absent term.
Stated(count) == IF count = None THEN 0 ELSE count[1]

\* The counts the first plan block states: those of its summary line and, for
\* a term the summary line lacks, the one of its continuation line.
StatedCounts ==
    LET plan == input.plan[1]
    IN  [add     |-> Stated(plan.add),
         change  |-> Stated(plan.change),
         destroy |-> IF plan.destroy = None /\ input.tail = "  (plus 7 to destroy, later)\n"
                     THEN 7 ELSE Stated(plan.destroy)]

\* C6: for a text with a plan summary the resourceCount of the report is what
\* the first plan block (up to the next blank line or the end) states, a term
\* missing from it counting 0, and no count is negative.
C6_ResourceCounts ==
    (Done /\ input.plan # None) =>
        /\ HasResourceCount
        /\ response.metadata.resourceCount = StatedCounts
        /\ response.metadata.resourceCount.add >= 0
        /\ response.metadata.resourceCount.change >= 0
        /\ response.metadata.resourceCount.destroy >= 0

\* C6 witness: a summary with a count of two digits and without its change
\* term, followed after a blank line by a second summary that has one.
C6_Witness ==
    /\ Done /\ input.plan # None
    /\ input.plan[1].change = None
    /\ input.plan[1].add # None /\ input.plan[1].add[1] >= 10
    /\ input.tail = "\nPlan: 7 to add, 8 to change, 9 to destroy.\n"
    /\ response.metadata.resourceCount.add = input.plan[1].add[1]
    /\ response.metadata.resourceCount.change = 0

\* C7: the report has no resourceCount exactly when the text has no plan
\* summary, on every exit of the pipeline, and a resourceCount it has is the
\* one that was extracted.
C7_ResourceCountAbsence ==
    Done =>
        /\ exit \in {"no_contexts", "no_errors", "full"}
        /\ HasResourceCount <=> (input.plan # None)
        /\ HasResourceCount => response.metadata.resourceCount = resource_counts[1]
        /\ ~HasResourceCount => resource_counts = None

\* C7 witness: the text No changes, without summary and without errors, is
\* reported as success without resourceCount.
C7_Witness ==
    /\ Done
    /\ plan_output = "No changes. Your infrastructure matches the configuration.\n\n"
    /\ exit = "no_contexts"
    /\ response.status = "success"
    /\ ~HasResourceCount

\* C8: an error classified permission is reported with the permission sentence
\* followed by its cleaned message, with the generic high-confidence and the
\* verify-credentials medium-confidence recommendations, with a vendor
\* recommendation (the only ones with a snippet) only if its message contains a
\* vendor keyword as written, and the status of the report is error.
C8_Permission ==
    Done =>
        \A n \in 1..Len(response.errors) :
            LET e    == response.errors[n]
                recs == e.recommendations
            IN  e.errorType = "permission" =>
                  /\ e.message = "You don't have sufficient permissions: "
                                     \o CleanMessage(error_contexts[n].message)
                  /\ \E r \in 1..Len(recs) :
                        /\ recs[r].confidence = "high"
                        /\ recs[r].description =
                              "Check that your credentials have sufficient permissions for this operation"
                  /\ \E r \in 1..Len(recs) :
                        /\ recs[r].confidence = "medium"
                        /\ recs[r].description =
                              "Verify that your authentication credentials are correct and not expired"
                  /\ (\E r \in 1..Len(recs) : "code" \in DOMAIN recs[r])
                        => ContainsAny(e.message, {"AWS", "IAM", "arn:aws", "Azure", "Microsoft"})
                  /\ response.status = "error"

\* C8 witness: access denied performing iam:CreateRole is reported as a
\* permission error without vendor recommendation, with status error.
C8_Witness ==
    /\ Done
    /\ response.status = "error"
    /\ \E n \in 1..Len(response.errors) :
          /\ error_contexts[n].message = "access denied performing iam:CreateRole"
          /\ response.errors[n].errorType = "permission"
          /\ Len(response.errors[n].recommendations) = 2
          /\ \A r \in 1..2 : "code" \notin DOMAIN response.errors[n].recommendations[r]

\* The declarations written in the texts.
DeclaredTypes == {"aws_instance", "aws_s3_bucket"}
DeclaredNames == {"web", "logs"}

\* The block declares resource type name, and its message contains already
\* exists and matches no earlier entry of the pattern table.
DeclaresAndExists(message, type, name) ==
    /\ Contains(message, "resource \"" \o type \o "\" \"" \o name \o "\"")
    /\ Contains(message, "already exists")
    /\ FirstMatchType(message) = "resource_conflict"

\* C9: an error block with a declaration resource T N whose message contains
\* already exists (and matches no earlier pattern) is reported as a
\* resource_conflict on the resource T.N, with a high-confidence import
\* recommendation whose snippet contains terraform import T.N.
C9_ConflictOnDeclaredResource ==
    Done =>
        \A n \in 1..Len(response.errors) : \A type \in DeclaredTypes : \A name \in DeclaredNames :
            DeclaresAndExists(error_contexts[n].message, type, name) =>
                LET e == response.errors[n]
                IN  /\ e.errorType = "resource_conflict"
                    /\ e.affectedResources =
                          <<[name |-> name, type |-> type, address |-> type \o "." \o name]>>
                    /\ \E r \in 1..Len(e.recommendations) :
                          /\ e.recommendations[r].confidence = "high"
                          /\ "code" \in DOMAIN e.recommendations[r]
                          /\ Contains(e.recommendations[r].code,
                                      "terraform import " \o type \o "." \o name)

\* C9 witness: the block that declares aws_instance web, after a file name
\* that has the shape of a dotted address, is reported on aws_instance.web.
C9_Witness ==
    /\ Done
    /\ \E n \in 1..Len(response.errors) :
          /\ DeclaresAndExists(error_contexts[n].message, "aws_instance", "web")
          /\ Contains(error_contexts[n].message, "main.tf")
          /\ response.errors[n].affectedResources[1].address = "aws_instance.web"

\* An error region was found, and each of its blocks is empty once trimmed.
OnlyBlankBlocks ==
    /\ plan_sections.errors # ""
    /\ LET blocks == SplitBlocks(plan_sections.errors, 1)
       IN  \A b \in 1..Len(blocks) : Strip(blocks[b]) = ""

\* C10: when an error region is found and no context can be produced from it
\* the report is a success report without errors, with the resource counts
\* that were extracted.
C10_NoContextFallback ==
    (Done /\ OnlyBlankBlocks) =>
        /\ error_contexts = <<>>
        /\ response.status = "success"
        /\ response.errors = <<>>
        /\ HasResourceCount <=> (resource_counts # None)
        /\ HasResourceCount => response.metadata.resourceCount = resource_counts[1]

\* C10 witness: a text with a plan summary and an error region of blank
\* blocks, reported as success with the counts of the summary.
C10_Witness ==
    /\ Done /\ OnlyBlankBlocks
    /\ response.status = "success"
    /\ HasResourceCount
    /\ response.metadata.resourceCount = [add |-> 2, change |-> 1, destroy |-> 0]

\* Recommendation r of a reported error has high confidence.
IsHigh(rec) == rec.confidence = "high"

\* C11 (as claimed): for a validation error whose cleaned raw message contains
\* expected X, the recommendations hold the high-confidence one that names X;
\* for one that contains required field instead, they hold the high-confidence
\* one with a snippet; in both cases the status of the report is error.
C11_HumanizeThenRecommend ==
    Done =>
        \A n \in 1..Len(response.errors) :
            LET e       == response.errors[n]
                recs    == e.recommendations
                cleaned == CleanMessage(error_contexts[n].message)
                x       == ExpectedValue(cleaned)
            IN  e.errorType = "validation" =>
                  /\ x # None =>
                        /\ \E r \in 1..Len(recs) :
                              IsHigh(recs[r]) /\ Contains(recs[r].description, x[1])
                        /\ response.status = "error"
                  /\ (x = None /\ Contains(cleaned, "required field")) =>
                        /\ \E r \in 1..Len(recs) :
                              IsHigh(recs[r]) /\ "code" \in DOMAIN recs[r]
                        /\ response.status = "error"

\* The cleaning as claimed: a leading Error: prefix goes, an occurrence
\* elsewhere stays, each run of whitespace becomes one space, trimmed.
LeadingPrefixRemoved(raw) ==
    IF IsAt(raw, "Error: ", 1) THEN From(raw, 8) ELSE raw

CleanedAsClaimed(raw) ==
    LET message == LeadingPrefixRemoved(raw)
    IN  Strip(CollapseWhitespace(message, 1, Len(message)))

\* The fixed sentence that introduces the message of a templated category.
CategoryPrefix ==
    [permission        |-> "You don't have sufficient permissions: ",
     dependency        |-> "There's a dependency issue: ",
     syntax            |-> "There's a syntax error in your configuration: ",
     resource_conflict |-> "Resource conflict detected: ",
     state_mismatch    |-> "The Terraform state doesn't match the actual infrastructure: ",
     provider          |-> "There's an issue with the provider configuration: ",
     module            |-> "There's an issue with a module: "]

\* C12 (as claimed): the reported message of a category without template is
\* the raw message without a leading Error: prefix and with its whitespace
\* collapsed, an Error: elsewhere in it being kept; the one of a templated
\* category is the prefix of the category followed by that cleaned message.
C12_CleanedMessage ==
    pc = "recommend" =>
        \A n \in 1..Len(errors) :
            LET e       == errors[n]
                cleaned == CleanedAsClaimed(error_contexts[n].message)
            IN  /\ e.errorType = "other" => e.message = cleaned
                /\ e.errorType \in DOMAIN CategoryPrefix =>
                      e.message = CategoryPrefix[e.errorType] \o cleaned
                /\ (e.errorType = "validation"
                      /\ \A i \in 1..Len(cleaned) : KeywordAt(cleaned, i) = "")
                      => e.message = cleaned

\* The three recommendations of the permission category, as they are reported.
IsGenericPermission(rec) ==
    /\ rec.confidence = "high"
    /\ rec.description =
          "Check that your credentials have sufficient permissions for this operation"
    /\ "code" \notin DOMAIN rec

IsVerifyCredentials(rec) ==
    /\ rec.confidence = "medium"
    /\ rec.description =
          "Verify that your authentication credentials are correct and not expired"
    /\ "code" \notin DOMAIN rec

\* The vendor recommendation: the AWS one when the message has an AWS keyword,
\* the Azure one otherwise.
IsVendorPermission(rec, message) ==
    /\ rec.confidence = "medium"
    /\ "code" \in DOMAIN rec
    /\ IF ContainsAny(message, {"AWS", "IAM", "arn:aws"})
       THEN Contains(rec.description, "AWS IAM user or role")
       ELSE Contains(rec.description, "Azure service principal")

\* A reported permission error in whose message a vendor keyword is found.
VendorPermissionError(e) ==
    /\ e.errorType = "permission"
    /\ ContainsAny(e.message, {"AWS", "IAM", "arn:aws", "Azure", "Microsoft"})

\* C13 (as claimed): the recommendations of a permission error with a vendor
\* keyword are, in order, the generic one, the verify-credentials one and then
\* the vendor one.
C13_VendorLast ==
    Done =>
        \A n \in 1..Len(response.errors) :
            LET e == response.errors[n]
            IN  VendorPermissionError(e) =>
                  /\ Len(e.recommendations) = 3
                  /\ IsGenericPermission(e.recommendations[1])
                  /\ IsVerifyCredentials(e.recommendations[2])
                  /\ IsVendorPermission(e.recommendations[3], e.message)

\* C13 (amended): the recommendations of a permission error with a vendor
\* keyword are, in order, the generic one, the vendor one and then the
\* verify-credentials one.
C13_VendorSecond ==
    Done =>
        \A n \in 1..Len(response.errors) :
            LET e == response.errors[n]
            IN  VendorPermissionError(e) =>
                  /\ Len(e.recommendations) = 3
                  /\ IsGenericPermission(e.recommendations[1])
                  /\ IsVendorPermission(e.recommendations[2], e.message)
                  /\ IsVerifyCredentials(e.recommendations[3])

\* C13 witness: a permission error that names Azure, reported with the Azure
\* recommendation between the two others.
C13_Witness ==
    /\ Done
    /\ \E n \in 1..Len(response.errors) :
          /\ VendorPermissionError(response.errors[n])
          /\ Contains(response.errors[n].message, "Azure")
          /\ Contains(response.errors[n].recommendations[2].code, "az role assignment create")
          /\ IsVerifyCredentials(response.errors[n].recommendations[3])

\* The pattern of the table entry that selected the category of the message:
\* the earliest entry that matches it; <<>> when no entry matches.
SelectingPattern(message) ==
    LET matching == MatchingEntries(message)
    IN  IF matching = {} THEN <<>> ELSE ERROR_PATTERNS[Min(matching)].pattern

\* C14 (as claimed): an error classified resource_conflict through the already
\* exists entry of the table gets the high-confidence import recommendation
\* followed by the medium-confidence rename recommendation, and one classified
\* through the in use entry gets the medium-confidence dependency-removal
\* recommendation: the probe of the recommender agrees with the entry.
C14_ConflictProbeAgrees ==
    Done =>
        \A n \in 1..Len(response.errors) :
            LET e        == response.errors[n]
                recs     == e.recommendations
                selected == SelectingPattern(error_contexts[n].message)
            IN  /\ selected = <<Lit("already exists")>> =>
                      /\ e.errorType = "resource_conflict"
                      /\ \E r \in 1..(Len(recs) - 1) :
                            /\ recs[r].confidence = "high"
                            /\ Contains(recs[r].description, "Import the existing resource")
                            /\ recs[r + 1].confidence = "medium"
                            /\ Contains(recs[r + 1].description, "Use a different name")
                /\ selected = <<Lit("in use")>> =>
                      /\ e.errorType = "resource_conflict"
                      /\ \E r \in 1..Len(recs) :
                            /\ recs[r].confidence = "medium"
                            /\ Contains(recs[r].description, "remove the dependency on this resource")

\* The message of occurrence b of the text is the message of no other one.
MessageOnlyOf(b) ==
    \A c \in 1..Len(input.blocks) : input.blocks[c].msg = input.blocks[b].msg => c = b

\* C15 (as claimed): the errors of the report are in the order of their blocks
\* in the text: when block a comes before block b, every entry made from a
\* comes before every entry made from b, whatever the forms of the two blocks.
C15_BlockOrder ==
    (Done /\ OneBlockPerOccurrence) =>
        \A a, b \in 1..Len(input.blocks) :
            (a < b /\ MessageOnlyOf(a) /\ MessageOnlyOf(b)) =>
                \A i, j \in 1..Len(response.errors) :
                    (/\ error_contexts[i].message = input.blocks[a].msg
                     /\ error_contexts[j].message = input.blocks[b].msg) => i < j

\* The index of the first error of the report that has the given type.
FirstOccurrence(errs, type) == Min({n \in 1..Len(errs) : errs[n].errorType = type})

\* The type the summary is to name: no type occurs more often, and of the
\* types that occur as often it is the one that occurs first.
MostFrequentFirstSeen(errs) ==
    LET types == {errs[n].errorType : n \in 1..Len(errs)}
        count(t) == Cardinality({n \in 1..Len(errs) : errs[n].errorType = t})
    IN  CHOOSE t \in types :
            \A u \in types :
                \/ count(t) > count(u)
                \/ count(t) = count(u) /\ FirstOccurrence(errs, t) <= FirstOccurrence(errs, u)

\* The summary names the type, as its value or as the member of ErrorType.
SummaryNames(type) ==
    \E enum_format \in EnumFormats :
        Contains(response.summary,
                 "Most are related to " \o FormatErrorType(type, enum_format) \o " problems.")

\* C16: when the status is error the summary names the error type that occurs
\* most often among the errors of the report and, when several occur as often,
\* the one of them that occurs first; it names no other type.
C16_MostCommonType ==
    (Done /\ response.status = "error") =>
        \A type \in {ERROR_PATTERNS[k].type : k \in 1..Len(ERROR_PATTERNS)} \cup {"other"} :
            SummaryNames(type) <=> type = MostFrequentFirstSeen(response.errors)

\* C16 witness: two types occur once each, and the summary names the one that
\* occurs first.
C16_Witness ==
    /\ Done /\ response.status = "error"
    /\ Len(response.errors) = 2
    /\ response.errors[1].errorType # response.errors[2].errorType
    /\ SummaryNames(response.errors[1].errorType)

\* Some recommendation of the reported error has the text in its description.
HasItem(e, text) ==
    \E r \in 1..Len(e.recommendations) : Contains(e.recommendations[r].description, text)

\* Per category: the items of its two targeted branches, the preferred one
\* first, and the items it always has.
CategoryBranches ==
    [validation        |-> [first  |-> "to match the expected format",
                            second |-> "Add the required",
                            always |-> {}],
     dependency        |-> [first  |-> "Define the missing resource",
                            second |-> "Break the circular dependency",
                            always |-> {}],
     permission        |-> [first  |-> "Ensure your AWS IAM user or role",
                            second |-> "Check that your Azure service principal",
                            always |-> {"Check that your credentials have sufficient permissions",
                                        "Verify that your authentication credentials"}],
     syntax            |-> [first  |-> "Check for missing or unbalanced quotes",
                            second |-> "Fix unbalanced brackets or braces",
                            always |-> {"Run 'terraform fmt'",
                                        "Check the HCL syntax documentation"}],
     resource_conflict |-> [first  |-> "Import the existing resource into your Terraform state instead",
                            second |-> "Identify and remove the dependency on this resource",
                            always |-> {"Check if you can use 'terraform state rm'"}],
     provider          |-> [first  |-> "Update your provider version constraint",
                            second |-> "Reinstall the provider plugin",
                            always |-> {"Check your provider configuration"}],
     module            |-> [first  |-> "Check that the module source URL",
                            second |-> "Update the module version",
                            always |-> {"Run terraform init to download any missing modules"}]]

\* The reported message has what both targeted branches of its category look for.
BothBranchesApply(e) ==
    LET m == e.message
    IN  CASE e.errorType = "validation" ->
                ExpectedValue(m) # None /\ Contains(m, "required field")
          [] e.errorType = "dependency" ->
                Contains(m, "unknown resource 'aws_vpc.main'") /\ Contains(m, "cyclic dependency")
          [] e.errorType = "permission" ->
                ContainsAny(m, {"AWS", "IAM", "arn:aws"}) /\ ContainsAny(m, {"Azure", "Microsoft"})
          [] e.errorType = "syntax" ->
                Contains(m, "expected quote") /\ Contains(m, "missing bracket")
          [] e.errorType = "resource_conflict" ->
                Contains(m, "already exists") /\ Contains(m, "in use")
          [] e.errorType = "provider" ->
                Contains(m, "version") /\ ContainsAny(m, {"plugin", "binary"})
          [] e.errorType = "module" ->
                Contains(m, "source") /\ Contains(m, "version")
          [] OTHER -> FALSE

\* C17: in the recommendations of a category at most one of its two targeted
\* branches contributes, the preferred one when both apply, and the items the
\* category always has are there whichever branch contributed, or none.
C17_BranchesExclusive ==
    Done =>
        \A n \in 1..Len(response.errors) :
            LET e == response.errors[n]
            IN  e.errorType \in DOMAIN CategoryBranches =>
                  LET b == CategoryBranches[e.errorType]
                  IN  /\ ~(HasItem(e, b.first) /\ HasItem(e, b.second))
                      /\ BothBranchesApply(e) => HasItem(e, b.first)
                      /\ \A item \in b.always : HasItem(e, item)

\* C17 witness: for each category with two targeted branches, an error to
\* which both apply has the item of the preferred branch only; shown here for
\* a provider error, with the item the category always has.
C17_Witness ==
    /\ Done
    /\ \E n \in 1..Len(response.errors) :
          LET e == response.errors[n]
          IN  /\ e.errorType = "provider"
              /\ BothBranchesApply(e)
              /\ HasItem(e, "Update your provider version constraint")
              /\ ~HasItem(e, "Reinstall the provider plugin")
              /\ HasItem(e, "Check your provider configuration")

\* A type and a name were extracted for the block, neither of them empty.
TypeAndNameKnown(context) ==
    /\ context.resource_type # None /\ context.resource_type[1] # ""
    /\ context.resource_name # None /\ context.resource_name[1] # ""

\* C18: a reported error has no affected resource or one; it has one exactly
\* when a type and a name, both non-empty, were extracted for its block, and
\* the address of the resource is then the type, a dot and the name.
C18_AffectedResources ==
    Done =>
        \A n \in 1..Len(response.errors) :
            LET resources == response.errors[n].affectedResources
                context   == error_contexts[n]
            IN  /\ Len(resources) \in {0, 1}
                /\ Len(resources) = 1 <=> TypeAndNameKnown(context)
                /\ Len(resources) = 1 =>
                      /\ resources[1].type = context.resource_type[1]
                      /\ resources[1].name = context.resource_name[1]
                      /\ resources[1].address =
                            context.resource_type[1] \o "." \o context.resource_name[1]

\* C18 witness: an error for whose block an empty type and an empty name were
\* extracted is reported without affected resource.
C18_Witness ==
    /\ Done
    /\ \E n \in 1..Len(response.errors) :
          /\ error_contexts[n].resource_type = Some("")
          /\ error_contexts[n].resource_name = Some("")
          /\ response.errors[n].affectedResources = <<>>

\* The text of the explicit declaration of a resource.
DeclarationOf(type, name) == "resource \"" \o type \o "\" \"" \o name \o "\""

HasDeclaration(block) ==
    \E type \in DeclaredTypes, name \in DeclaredNames :
        Contains(block, DeclarationOf(type, name))

\* A token of the block: a maximal run of the characters of an address, given
\* by the position at which it starts.
IsTokenStart(block, i) ==
    /\ At(block, i) \in AddressChars
    /\ i = 1 \/ At(block, i - 1) \notin AddressChars

TokenAt(block, i) == SubSeq(block, i, RunEnd(block, AddressChars, i) - 1)

\* The tokens that contain a dot.
DottedTokens(block) ==
    {i \in 1..Len(block) : IsTokenStart(block, i) /\ Contains(TokenAt(block, i), ".")}

\* The tokens in which a dot has a character of the token before and after it.
InnerDottedTokens(block) ==
    {i \in 1..Len(block) :
        /\ IsTokenStart(block, i)
        /\ \E k \in 2..(Len(TokenAt(block, i)) - 1) : At(TokenAt(block, i), k) = "."}

\* The type and the name of the context are those of the two strategies, the
\* second one working on the given tokens of the block.
TwoStrategies(context, tokens) ==
    LET block == context.message
    IN  /\ \A type \in DeclaredTypes, name \in DeclaredNames :
              Contains(block, DeclarationOf(type, name)) =>
                  /\ context.resource_type = Some(type)
                  /\ context.resource_name = Some(name)
        /\ (~HasDeclaration(block) /\ tokens # {}) =>
              LET segments == LastTwoSegments(TokenAt(block, Min(tokens)))
              IN  /\ context.resource_type = Some(segments[1])
                  /\ context.resource_name = Some(segments[2])
        /\ (~HasDeclaration(block) /\ tokens = {}) =>
              /\ context.resource_type = None
              /\ context.resource_name = None

\* C19 (as claimed): the type and the name of a block are those of its
\* explicit declaration; without one they are the last two segments of its
\* first token that contains a dot; without such a token they are absent.
C19_FirstDottedToken ==
    Done =>
        \A n \in 1..Len(error_contexts) :
            TwoStrategies(error_contexts[n], DottedTokens(error_contexts[n].message))

\* C19 (amended): the type and the name of a block are those of its explicit
\* declaration; without one they are the last two segments of its first token
\* in which a dot has a character before and after it; without such a token
\* they are absent.
C19_FirstAddressToken ==
    Done =>
        \A n \in 1..Len(error_contexts) :
            TwoStrategies(error_contexts[n], InnerDottedTokens(error_contexts[n].message))

\* C19 witness: a block without declaration whose first token with a dot is
\* the last word of a sentence, and whose type and name are those of the
\* address that follows.
C19_Witness ==
    /\ Done
    /\ \E n \in 1..Len(error_contexts) :
          LET block == error_contexts[n].message
          IN  /\ ~HasDeclaration(block)
              /\ DottedTokens(block) # {}
              /\ TokenAt(block, Min(DottedTokens(block))) = "failed."
              /\ error_contexts[n].resource_type = Some("aws_instance")
              /\ error_contexts[n].resource_name = Some("web")

\* The fields of an error that the recommender only reads.
SameApartFromRecommendations(before, after) ==
    /\ after.errorType = before.errorType
    /\ after.message = before.message
    /\ after.affectedResources = before.affectedResources

\* C20: the classifier leaves every error with an empty list of
\* recommendations; the recommender, which runs after it, keeps the number and
\* the order of the errors and the errorType, the message and the
\* affectedResources of each; no other step writes the errors, so that the
\* recommendations of an error are assigned once.
C20_RecommendationsWrittenOnce ==
    [][/\ pc = "detect" =>
              \A n \in 1..Len(errors') : errors'[n].recommendations = <<>>
       /\ pc = "recommend" =>
              /\ Len(errors') = Len(errors)
              /\ \A n \in 1..Len(errors) :
                    /\ errors[n].recommendations = <<>>
                    /\ SameApartFromRecommendations(errors[n], errors'[n])
                    /\ errors'[n].recommendations =
                           generate_recommendations_for_error(errors[n])
       /\ pc \notin {"detect", "recommend"} => errors' = errors]_vars

\* C20 witness: the recommender has run on two errors of different types and
\* has given recommendations to both.
C20_Witness ==
    /\ pc = "format"
    /\ exit = "full"
    /\ Len(errors) >= 2
    /\ errors[1].errorType # errors[2].errorType
    /\ \A n \in 1..Len(errors) : errors[n].recommendations # <<>>

\* The error is the one that the detector makes of the context.
ErrorOfContext(error, context) ==
    /\ error.errorType = classify_error_type(context.message)
    /\ error.message = humanize_error_message(context.message, error.errorType)

\* C21: the detector returns one error for each context, in the order of the
\* contexts, so that the exit taken when no error could be detected from the
\* contexts is never taken, and the report has as many errors as there are
\* contexts.
C21_OneErrorPerContext ==
    /\ exit # "no_errors"
    /\ pc \in {"recommend", "format", "done"} => Len(errors) = Len(error_contexts)
    /\ pc = "recommend" =>
          \A n \in 1..Len(errors) : ErrorOfContext(errors[n], error_contexts[n])
    /\ Done => Len(response.errors) = Len(error_contexts)

\* C21 witness: a report of several contexts of different messages, with an
\* error for each, of different types.
C21_Witness ==
    /\ Done
    /\ exit = "full"
    /\ Len(error_contexts) >= 2
    /\ error_contexts[1].message # error_contexts[2].message
    /\ Len(response.errors) = Len(error_contexts)
    /\ response.errors[1].errorType # response.errors[2].errorType

\* The categories whose recommender always gives an item of high confidence,
\* and the other ones.
AlwaysHighCategories == {"permission", "syntax", "state_mismatch"}

OtherCategories ==
    {"validation", "dependency", "resource_conflict", "provider", "module", "other"}

\* C22: a report with an error of category permission, syntax or
\* state_mismatch has the status "error"; in a report of status "unknown"
\* every error is of category validation, dependency, resource_conflict,
\* provider, module or other.
C22_AlwaysHighIsError ==
    Done =>
        /\ (\E n \in 1..Len(response.errors) :
                response.errors[n].errorType \in AlwaysHighCategories)
              => response.status = "error"
        /\ response.status = "unknown" =>
              \A n \in 1..Len(response.errors) :
                  response.errors[n].errorType \in OtherCategories
        /\ \A n \in 1..Len(response.errors) :
              response.errors[n].errorType \in AlwaysHighCategories =>
                  ReportedHigh(response.errors[n])

\* C22 witness: a report of status "error" with a syntax error whose message
\* has neither the quotes nor the brackets of the targeted items.
C22_Witness ==
    /\ Done
    /\ response.status = "error"
    /\ \E n \in 1..Len(response.errors) :
          /\ response.errors[n].errorType = "syntax"
          /\ Len(response.errors[n].recommendations) = 2

=============================================================================
